---- MODULE Spec2Model ----
(***************************************************************************)
(* Model of src/app.py: a push-to-talk recorder that captures audio while  *)
(* SPACE is held, writes it to audio.wav, and sends that file first to the *)
(* Groq worker and then to the Deepgram worker, showing each transcript as *)
(* clickable words with an accuracy label.                                 *)
(*                                                                         *)
(* Threads: the Qt main thread (key events, button, clicks, queued slots), *)
(* one Python capture thread per recording, one QThread per API call.      *)
(* Signals emitted by a QThread are delivered to the main thread through   *)
(* its event queue, in the order they were emitted.                        *)
(*                                                                         *)
(* A text is a sequence of symbols; the symbol " " is whitespace and every *)
(* other symbol stands for a run of non-whitespace characters.             *)
(***************************************************************************)
EXTENDS Integers, Sequences, FiniteSets, TLC

\* ------------------------------------------------------------- bounds
MaxCycles == 2      \* recording cycles (accepted presses of SPACE) in one run
MaxFrames == 1      \* chunks one capture session may read
MaxTextLen == 5     \* symbols of a text handed to a widget on its own

\* ------------------------------------------------- program constants
CHANNELS == 1
RATE == 16000
SAMPLE_WIDTH == 2

VARIABLES
    recording,      \* MainWindow.recording
    stopEvent,      \* MainWindow.stop_recording_event
    frames,         \* MainWindow.frames
    rec,            \* the capture thread: position, PyAudio instance, stream
    mainPc,         \* main thread: "idle" in the event loop, "joining" in join()
    file,           \* contents of audio.wav
    groqKey,        \* text of groqApiLineEdit
    dgKey,          \* text of deepgramApiLineEdit
    status,         \* text of statusLabel
    widgets,        \* groqWidget and deepgramWidget
    nCycles,        \* number of recording cycles started so far
    curGroq,        \* cycle of the object self.groqWorker refers to (0: none)
    groqW,          \* GroqWorker objects, by cycle
    dgW,            \* DeepgramWorker objects, by cycle
    curDg,          \* cycle of the object self.deepgramWorker refers to (0: none)
    queue,          \* main thread's queue of signal deliveries
    delivered,      \* history: the cycles whose outcome each widget was handed
    crashed         \* the process was aborted by Qt

vars == <<recording, stopEvent, frames, rec, mainPc, file, groqKey, dgKey,
          status, widgets, nCycles, curGroq, groqW, dgW, curDg, queue, delivered,
          crashed>>

Cycles == 1..MaxCycles

\* ------------------------------------------------------------------ text
\* what a key field may hold: nothing, or a key typed with a leading blank
KeyTexts == {<<>>, <<" ", "k">>}
Transcripts == {<<"a", " ", " ", "b">>}

\* time.time() differences measured around a request that returned
Elapsed == {3}

RECURSIVE LStrip(_)
LStrip(s) == IF s # <<>> /\ Head(s) = " " THEN LStrip(Tail(s)) ELSE s

RECURSIVE RStrip(_)
RStrip(s) ==
    IF s # <<>> /\ s[Len(s)] = " " THEN RStrip(SubSeq(s, 1, Len(s) - 1)) ELSE s

\* str.strip()
Strip(s) == RStrip(LStrip(s))

RECURSIVE SplitFrom(_, _, _)
SplitFrom(s, cur, acc) ==
    IF s = <<>>
    THEN IF cur = <<>> THEN acc ELSE Append(acc, cur)
    ELSE IF Head(s) = " "
         THEN SplitFrom(Tail(s), <<>>, IF cur = <<>> THEN acc ELSE Append(acc, cur))
         ELSE SplitFrom(Tail(s), Append(cur, Head(s)), acc)

\* str.split() without arguments
Split(s) == SplitFrom(s, <<>>, <<>>)

\* f"Error: {e}"
ErrorText(msg) == <<"Error:", " ", msg>>

\* str(e) of the exceptions the calls raise, as one symbol
ExcText == "exc"

\* ------------------------------------------------------- accuracy widgets
\* f"{accuracy:.1f}": tenths of a percent, rounded to nearest
Tenths(correct, total) == (2000 * correct + total) \div (2 * total)

\* a score that counts the marked words as the correct ones
update_accuracy_countsMarked(selected) ==
    LET total == Len(selected)
        inaccurate == Cardinality({i \in 1..total : selected[i]})
    IN  IF total = 0
        THEN [kind |-> "N/A", pct10 |-> 0, correct |-> 0, total |-> 0]
        ELSE [kind |-> "pct", pct10 |-> Tenths(inaccurate, total),
              correct |-> inaccurate, total |-> total]

update_accuracy(selected) ==
    LET total == Len(selected)
        inaccurate == Cardinality({i \in 1..total : selected[i]})
    IN  IF total = 0
        THEN [kind |-> "N/A", pct10 |-> 0, correct |-> 0, total |-> 0]
        ELSE [kind |-> "pct", pct10 |-> Tenths(total - inaccurate, total),
              correct |-> total - inaccurate, total |-> total]

\* TranscriptionWidget.__init__: "Speed: -", no words, "Accuracy: -"
NewWidget ==
    [speed |-> -1, words |-> <<>>, selected |-> <<>>,
     accuracy |-> [kind |-> "-", pct10 |-> 0, correct |-> 0, total |-> 0]]

\* a widget that shows the whole text as one label
set_transcription_oneLabel(text, speed) ==
    LET words == <<text>>
        sel == [i \in 1..Len(words) |-> FALSE]
    IN  [speed |-> speed, words |-> words, selected |-> sel,
         accuracy |-> update_accuracy(sel)]

set_transcription(text, speed) ==
    LET words == Split(text)
        sel == [i \in 1..Len(words) |-> FALSE]
    IN  [speed |-> speed, words |-> words, selected |-> sel,
         accuracy |-> update_accuracy(sel)]

\* a click that marks the word whatever its flag was
Clicked_markOnly(w, i) ==
    LET sel == [w.selected EXCEPT ![i] = TRUE]
    IN  [w EXCEPT !.selected = sel, !.accuracy = update_accuracy(sel)]

\* ClickableLabel.mousePressEvent on word i, then the toggled slot
Clicked(w, i) ==
    LET sel == [w.selected EXCEPT ![i] = ~@]
    IN  [w EXCEPT !.selected = sel, !.accuracy = update_accuracy(sel)]

\* ------------------------------------------------------------- audio file
NoFile ==
    [exists |-> FALSE, nchannels |-> 0, sampwidth |-> 0, framerate |-> 0,
     nframes |-> 0, data |-> <<>>]

\* wave.open(name, 'wb') has created or truncated the file, nothing written yet
EmptyFile == [NoFile EXCEPT !.exists = TRUE]

\* one chunk returned by stream.read(CHUNK), as a sequence of samples
Chunk == <<1>>

RECURSIVE Join(_)
Join(fs) == IF fs = <<>> THEN <<>> ELSE Head(fs) \o Join(Tail(fs))

\* the WAV file written by lines 365-370
Encode(fs) ==
    LET data == Join(fs)
    IN  [exists |-> TRUE, nchannels |-> CHANNELS, sampwidth |-> SAMPLE_WIDTH,
         framerate |-> RATE, nframes |-> Len(data), data |-> data]

\* ------------------------------------------------------ backend responses
\* What requests.post and response.json() can produce.  kind: "neterr" the
\* request raises; "notjson" the body is not JSON; "nonobj" the body is JSON
\* but not an object; "obj" the body is a JSON object.
Kinds == {"neterr", "notjson", "nonobj", "obj"}
Statuses == {200, 500}

\* Fields that cannot matter for a kind are fixed, so that each response is
\* listed once.
\* isStr: the value found at the transcript's key is a JSON string (it may
\* also be null, a number, a list or an object)
GroqResponses ==
    {r \in [kind : Kinds, status : Statuses, hasText : BOOLEAN, isStr : BOOLEAN,
            text : Transcripts] :
        /\ r.kind = "neterr" => r.status = 200
        /\ r.kind # "obj" => ~r.hasText
        /\ ~r.hasText => r.isStr}

Segments == {"absent", "empty", "one"}

DeepgramResponses ==
    {r \in [kind : Kinds, status : Statuses, results : BOOLEAN, channels : Segments,
            alternatives : Segments, hasTranscript : BOOLEAN, isStr : BOOLEAN,
            text : Transcripts] :
        /\ r.kind = "neterr" => r.status = 200
        /\ r.kind # "obj" => ~r.results
        /\ ~r.results => r.channels = "absent"
        /\ r.channels # "one" => r.alternatives = "absent"
        /\ r.alternatives # "one" => ~r.hasTranscript
        /\ ~r.hasTranscript => r.isStr}

Parsed(text) == [raised |-> FALSE, msg |-> "", text |-> text]
Raised(msg) == [raised |-> TRUE, msg |-> msg, text |-> <<>>]

\* lines 212-215: post, response.json(), data.get("text", "")
ParseGroq(r) ==
    CASE r.kind = "neterr" -> Raised(ExcText)
      [] r.kind = "notjson" -> Raised(ExcText)
      [] r.kind = "nonobj" -> Raised(ExcText)
      [] OTHER -> Parsed(IF r.hasText THEN r.text ELSE <<>>)

\* lines 239-248: post, response.json(), then
\* data.get("results", {}).get("channels", [{}])[0]
\*     .get("alternatives", [{}])[0].get("transcript", "")
ParseDeepgram(r) ==
    LET channels == IF r.results THEN r.channels ELSE "absent"
        alternatives == IF channels = "one" THEN r.alternatives ELSE "absent"
        transcript == alternatives = "one" /\ r.hasTranscript
    IN  CASE r.kind = "neterr" -> Raised(ExcText)
          [] r.kind = "notjson" -> Raised(ExcText)
          [] r.kind = "nonobj" -> Raised(ExcText)
          [] channels = "empty" -> Raised(ExcText)
          [] alternatives = "empty" -> Raised(ExcText)
          [] OTHER -> Parsed(IF transcript THEN r.text ELSE <<>>)

\* What an observer of the exchange knows about it; the code computes neither.
\* Missing: the body is a JSON object in which a segment of the path to the
\* transcript is absent or an empty list.  Failed: the call failed, by a
\* network error, a non-success status or a body without the transcript.
GroqMissing(r) == r.kind = "obj" /\ ~r.hasText

DeepgramMissing(r) ==
    /\ r.kind = "obj"
    /\ ~(r.results /\ r.channels = "one" /\ r.alternatives = "one" /\ r.hasTranscript)

GroqFailed(r) == r.kind # "obj" \/ r.status # 200 \/ GroqMissing(r)

DeepgramFailed(r) == r.kind # "obj" \/ r.status # 200 \/ DeepgramMissing(r)

\* Lines 219 and 252: result_ready is declared pyqtSignal(str, float), so emit
\* raises TypeError when the transcription taken from the body is not a string.
\* The call stands after the try statement: nothing catches the exception, the
\* signal is not sent, and PyQt5 ends the process (qFatal) on an exception
\* that leaves run().
GroqEmitRaises(f, r) == f.exists /\ r.kind = "obj" /\ r.hasText /\ ~r.isStr

DeepgramEmitRaises(f, r) ==
    /\ f.exists /\ r.kind = "obj"
    /\ r.results /\ r.channels = "one" /\ r.alternatives = "one"
    /\ r.hasTranscript /\ ~r.isStr

\* an except branch that reports the time elapsed so far
Emitted_partialElapsed(f, parsed, elapsed) ==
    LET p == IF ~f.exists THEN Raised(ExcText) ELSE parsed
    IN  IF p.raised
        THEN [text |-> ErrorText(p.msg), speed |-> elapsed, raised |-> TRUE]
        ELSE [text |-> p.text, speed |-> elapsed, raised |-> FALSE]

\* the try/except of run(): what result_ready.emit is given
Emitted(f, parsed, elapsed) ==
    LET p == IF ~f.exists THEN Raised(ExcText) ELSE parsed
    IN  IF p.raised
        THEN [text |-> ErrorText(p.msg), speed |-> 0, raised |-> TRUE]
        ELSE [text |-> p.text, speed |-> elapsed, raised |-> FALSE]

Msg(sig, c, out, failed, missing) ==
    [sig |-> sig, id |-> c, text |-> out.text, speed |-> out.speed,
     raised |-> out.raised, failed |-> failed, missing |-> missing]

FinishedMsg(c) ==
    [sig |-> "groq_finished", id |-> c, text |-> <<>>, speed |-> 0,
     raised |-> FALSE, failed |-> FALSE, missing |-> FALSE]

\* the two signals in the other order
GroqSignals_finishedFirst(c, result) == <<FinishedMsg(c), result>>

\* what a GroqWorker posts to the main thread: result_ready from run(), then
\* finished when run() has returned
GroqSignals(c, result) == <<result, FinishedMsg(c)>>

NoWorker == [pc |-> "none", key |-> <<>>, blob |-> NoFile]
Running(w) == w.pc = "running"

\* ------------------------------------------------------------------ Init
\* MainWindow.__init__ (audio.wav does not exist yet)
Init ==
    /\ recording = FALSE
    /\ stopEvent = FALSE
    /\ frames = <<>>
    /\ rec = [pc |-> "none", pa |-> FALSE, stream |-> FALSE]
    /\ mainPc = "idle"
    /\ file = NoFile
    /\ groqKey = <<>>
    /\ dgKey = <<>>
    /\ status = "Press SPACE to start recording."
    /\ widgets = [b \in {"groq", "deepgram"} |-> NewWidget]
    /\ nCycles = 0
    /\ curGroq = 0
    /\ groqW = [c \in Cycles |-> NoWorker]
    /\ dgW = [c \in Cycles |-> NoWorker]
    /\ curDg = 0
    /\ queue = <<>>
    /\ delivered = [b \in {"groq", "deepgram"} |-> {}]
    /\ crashed = FALSE

\* ------------------------------------------------------- the capture thread
Terminated(r) == r.pc \in {"done", "dead"}

\* lines 347-350: PyAudio(), p.open(...), self.frames = []
record_audio_open ==
    /\ ~crashed /\ rec.pc = "start"
    /\ \/ /\ rec' = [pc |-> "loop", pa |-> TRUE, stream |-> TRUE]
          /\ frames' = <<>>
       \/ \* p.open raises: the thread dies with the exception
          /\ rec' = [pc |-> "dead", pa |-> TRUE, stream |-> FALSE]
          /\ UNCHANGED frames
    /\ UNCHANGED <<recording, stopEvent, mainPc, file, groqKey, dgKey, status,
                   widgets, nCycles, curGroq, groqW, dgW, curDg, queue, delivered, crashed>>

\* lines 352-365: one pass of the while loop; on leaving it the thread stops
\* and closes the stream, terminates PyAudio and opens audio.wav for writing,
\* which truncates it
record_audio_loop ==
    /\ ~crashed /\ rec.pc = "loop"
    /\ \/ /\ ~stopEvent
          /\ Len(frames) < MaxFrames
          /\ frames' = Append(frames, Chunk)
          /\ UNCHANGED <<rec, file>>
       \/ \* the event is set, or stream.read raises (break)
          /\ rec' = [pc |-> "write", pa |-> FALSE, stream |-> FALSE]
          /\ file' = EmptyFile
          /\ UNCHANGED frames
    /\ UNCHANGED <<recording, stopEvent, mainPc, groqKey, dgKey, status,
                   widgets, nCycles, curGroq, groqW, dgW, curDg, queue, delivered,
                   crashed>>

\* lines 366-370: header and frames written, file closed; the thread ends
record_audio_wave_close ==
    /\ ~crashed /\ rec.pc = "write"
    /\ file' = Encode(frames)
    /\ rec' = [rec EXCEPT !.pc = "done"]
    /\ UNCHANGED <<recording, stopEvent, frames, mainPc, groqKey, dgKey, status,
                   widgets, nCycles, curGroq, groqW, dgW, curDg, queue, delivered, crashed>>

\* --------------------------------------------------------- the main thread
start_recording ==
    /\ recording' = TRUE
    /\ status' = "Recording while SPACE is held down..."
    /\ stopEvent' = FALSE
    /\ frames' = <<>>
    /\ rec' = [pc |-> "start", pa |-> FALSE, stream |-> FALSE]
    /\ nCycles' = nCycles + 1
    /\ UNCHANGED <<mainPc, file, groqKey, dgKey, widgets, curGroq, groqW, dgW,
                   curDg, queue, delivered, crashed>>

\* a press handler without the test of self.recording
keyPressEvent_noGuard ==
    /\ ~crashed /\ mainPc = "idle"
    /\ nCycles < MaxCycles /\ start_recording

\* SPACE pressed
keyPressEvent ==
    /\ ~crashed /\ mainPc = "idle"
    /\ IF ~recording
       THEN nCycles < MaxCycles /\ start_recording
       ELSE UNCHANGED vars

\* lines 332-336 up to the join: the main thread now waits for the capture thread
stop_recording ==
    /\ recording' = FALSE
    /\ stopEvent' = TRUE
    /\ mainPc' = "joining"
    /\ UNCHANGED <<frames, rec, file, groqKey, dgKey, status, widgets, nCycles,
                   curGroq, groqW, dgW, curDg, queue, delivered, crashed>>

\* a release handler without the test of self.recording, calling a
\* stop_recording without its own test
keyReleaseEvent_noGuard ==
    /\ ~crashed /\ mainPc = "idle"
    /\ stop_recording

\* SPACE released
keyReleaseEvent ==
    /\ ~crashed /\ mainPc = "idle"
    /\ IF recording THEN stop_recording ELSE UNCHANGED vars

\* a check that forgets the second key
KeysMissing_groqOnly(groq_api_key, deepgram_api_key) == groq_api_key = <<>>

\* line 376
KeysMissing(groq_api_key, deepgram_api_key) ==
    groq_api_key = <<>> \/ deepgram_api_key = <<>>

\* Replacing the Python reference to a QThread that is still running lets the
\* object be destroyed while its thread runs, on which Qt aborts the process.
\* Whether the object is destroyed at once depends on what else still refers
\* to it, so both outcomes are allowed.
MayAbort(w) ==
    IF Running(w) THEN crashed' \in BOOLEAN ELSE crashed' = FALSE

start_transcription ==
    LET groq_api_key == Strip(groqKey)
        deepgram_api_key == Strip(dgKey)
    IN  IF KeysMissing(groq_api_key, deepgram_api_key)
        THEN /\ status' = "Please enter both API keys!"
             /\ UNCHANGED <<curGroq, groqW, crashed>>
        ELSE /\ status' = "Starting Groq Cloud transcription..."
             /\ groqW' = [groqW EXCEPT ![nCycles] =
                            [pc |-> "running", key |-> groq_api_key, blob |-> NoFile]]
             /\ curGroq' = nCycles
             /\ MayAbort(IF curGroq = 0 THEN NoWorker ELSE groqW[curGroq])

\* lines 336-339: join() returns once the capture thread has ended
stop_recording_joined ==
    /\ ~crashed /\ mainPc = "joining"
    /\ Terminated(rec)
    /\ mainPc' = "idle"
    /\ start_transcription
    /\ UNCHANGED <<recording, stopEvent, frames, rec, file, groqKey, dgKey,
                   widgets, nCycles, dgW, curDg, queue, delivered>>

\* the slot connected to groqWorker.result_ready
handle_groq_result ==
    /\ ~crashed /\ mainPc = "idle"
    /\ queue # <<>>
    /\ Head(queue).sig = "groq_result"
    /\ widgets' = [widgets EXCEPT
                     !["groq"] = set_transcription(Head(queue).text, Head(queue).speed)]
    /\ status' = "Groq Cloud transcription complete. Starting Deepgram..."
    /\ queue' = Tail(queue)
    /\ delivered' = [delivered EXCEPT !["groq"] = @ \cup {Head(queue).id}]
    /\ UNCHANGED <<recording, stopEvent, frames, rec, mainPc, file, groqKey,
                   dgKey, nCycles, curGroq, groqW, dgW, curDg, crashed>>

\* the slot connected to groqWorker.finished
start_deepgram_transcription ==
    /\ ~crashed /\ mainPc = "idle"
    /\ queue # <<>>
    /\ Head(queue).sig = "groq_finished"
    /\ status' = "Starting Deepgram transcription..."
    /\ dgW' = [dgW EXCEPT ![Head(queue).id] =
                 [pc |-> "running", key |-> Strip(dgKey), blob |-> NoFile]]
    /\ curDg' = Head(queue).id
    /\ MayAbort(IF curDg = 0 THEN NoWorker ELSE dgW[curDg])
    /\ queue' = Tail(queue)
    /\ UNCHANGED <<recording, stopEvent, frames, rec, mainPc, file, groqKey,
                   dgKey, widgets, nCycles, curGroq, groqW, delivered>>

\* a slot that writes its result into the other widget
handle_deepgram_result_otherWidget ==
    /\ ~crashed /\ mainPc = "idle"
    /\ queue # <<>>
    /\ Head(queue).sig = "deepgram_result"
    /\ widgets' = [widgets EXCEPT
                     !["groq"] = set_transcription(Head(queue).text, Head(queue).speed)]
    /\ status' = "All transcriptions complete. Press SPACE to start a new recording."
    /\ queue' = Tail(queue)
    /\ delivered' = [delivered EXCEPT !["deepgram"] = @ \cup {Head(queue).id}]
    /\ UNCHANGED <<recording, stopEvent, frames, rec, mainPc, file, groqKey,
                   dgKey, nCycles, curGroq, groqW, dgW, curDg, crashed>>

\* the slot connected to deepgramWorker.result_ready
handle_deepgram_result ==
    /\ ~crashed /\ mainPc = "idle"
    /\ queue # <<>>
    /\ Head(queue).sig = "deepgram_result"
    /\ widgets' = [widgets EXCEPT
                     !["deepgram"] = set_transcription(Head(queue).text, Head(queue).speed)]
    /\ status' = "All transcriptions complete. Press SPACE to start a new recording."
    /\ queue' = Tail(queue)
    /\ delivered' = [delivered EXCEPT !["deepgram"] = @ \cup {Head(queue).id}]
    /\ UNCHANGED <<recording, stopEvent, frames, rec, mainPc, file, groqKey,
                   dgKey, nCycles, curGroq, groqW, dgW, curDg, crashed>>

\* the Reset button
reset_transcriptions ==
    /\ ~crashed /\ mainPc = "idle"
    /\ widgets' = [b \in {"groq", "deepgram"} |-> set_transcription(<<>>, 0)]
    /\ status' = "Press SPACE to start recording."
    /\ UNCHANGED <<recording, stopEvent, frames, rec, mainPc, file, groqKey,
                   dgKey, nCycles, curGroq, groqW, dgW, curDg, queue, delivered, crashed>>

\* a click that reaches the word with the same index in both widgets
mousePressEvent_bothWidgets ==
    /\ ~crashed /\ mainPc = "idle"
    /\ \E b \in {"groq", "deepgram"} : \E i \in 1..Len(widgets[b].words) :
          widgets' = [c \in {"groq", "deepgram"} |->
                        IF i <= Len(widgets[c].words)
                        THEN Clicked(widgets[c], i) ELSE widgets[c]]
    /\ UNCHANGED <<recording, stopEvent, frames, rec, mainPc, file, groqKey,
                   dgKey, status, nCycles, curGroq, groqW, dgW, curDg, queue, delivered,
                   crashed>>

\* a click on a word of one of the two widgets
mousePressEvent ==
    /\ ~crashed /\ mainPc = "idle"
    /\ \E b \in {"groq", "deepgram"} : \E i \in 1..Len(widgets[b].words) :
          widgets' = [widgets EXCEPT ![b] = Clicked(widgets[b], i)]
    /\ UNCHANGED <<recording, stopEvent, frames, rec, mainPc, file, groqKey,
                   dgKey, status, nCycles, curGroq, groqW, dgW, curDg, queue, delivered,
                   crashed>>

\* the user types into one of the two key fields
EditGroqKey ==
    /\ ~crashed /\ mainPc = "idle"
    /\ \E k \in KeyTexts \ {groqKey} : groqKey' = k
    /\ UNCHANGED <<recording, stopEvent, frames, rec, mainPc, file, dgKey,
                   status, widgets, nCycles, curGroq, groqW, dgW, curDg, queue, delivered,
                   crashed>>

EditDeepgramKey ==
    /\ ~crashed /\ mainPc = "idle"
    /\ \E k \in KeyTexts \ {dgKey} : dgKey' = k
    /\ UNCHANGED <<recording, stopEvent, frames, rec, mainPc, file, groqKey,
                   status, widgets, nCycles, curGroq, groqW, dgW, curDg, queue, delivered,
                   crashed>>

\* ------------------------------------------------------ the worker threads
\* GroqWorker.run, then QThread's finished signal as the thread ends
GroqWorker_run(c) ==
    /\ ~crashed /\ groqW[c].pc = "running"
    /\ \E r \in GroqResponses : \E elapsed \in Elapsed :
          IF GroqEmitRaises(file, r)
          THEN /\ groqW' = [groqW EXCEPT ![c].pc = "raised", ![c].blob = file]
               /\ crashed' = TRUE
               /\ UNCHANGED queue
          ELSE /\ queue' = queue \o GroqSignals(c, Msg("groq_result", c,
                                               Emitted(file, ParseGroq(r), elapsed),
                                               ~file.exists \/ GroqFailed(r),
                                               file.exists /\ GroqMissing(r)))
               /\ groqW' = [groqW EXCEPT ![c].pc = "finished", ![c].blob = file]
               /\ UNCHANGED crashed
    /\ UNCHANGED <<recording, stopEvent, frames, rec, mainPc, file, groqKey,
                   dgKey, status, widgets, nCycles, curGroq, dgW, curDg, delivered>>

\* DeepgramWorker.run; nothing is connected to this worker's finished signal
DeepgramWorker_run(c) ==
    /\ ~crashed /\ dgW[c].pc = "running"
    /\ \E r \in DeepgramResponses : \E elapsed \in Elapsed :
          IF DeepgramEmitRaises(file, r)
          THEN /\ dgW' = [dgW EXCEPT ![c].pc = "raised", ![c].blob = file]
               /\ crashed' = TRUE
               /\ UNCHANGED queue
          ELSE /\ queue' = Append(queue, Msg("deepgram_result", c,
                                     Emitted(file, ParseDeepgram(r), elapsed),
                                     ~file.exists \/ DeepgramFailed(r),
                                     file.exists /\ DeepgramMissing(r)))
               /\ dgW' = [dgW EXCEPT ![c].pc = "finished", ![c].blob = file]
               /\ UNCHANGED crashed
    /\ UNCHANGED <<recording, stopEvent, frames, rec, mainPc, file, groqKey,
                   dgKey, status, widgets, nCycles, curGroq, groqW, curDg, delivered>>

\* ------------------------------------------------------------ specifications
\* Everything the window and its threads do, except clicks on words.  A click
\* writes only the flags of one widget, which no other action reads.  Every
\* action requires ~crashed: an aborted process takes no further step.
Next ==
    \/ keyPressEvent
    \/ keyReleaseEvent
    \/ stop_recording_joined
    \/ handle_groq_result
    \/ start_deepgram_transcription
    \/ handle_deepgram_result
    \/ reset_transcriptions
    \/ EditGroqKey
    \/ EditDeepgramKey
    \/ record_audio_open
    \/ record_audio_loop
    \/ record_audio_wave_close
    \/ \E c \in Cycles : GroqWorker_run(c)
    \/ \E c \in Cycles : DeepgramWorker_run(c)

Spec == Init /\ [][Next]_vars

\* The same window with both keys typed in and left alone, and a user who
\* clicks on words.
InitUI ==
    /\ recording = FALSE
    /\ stopEvent = FALSE
    /\ frames = <<>>
    /\ rec = [pc |-> "none", pa |-> FALSE, stream |-> FALSE]
    /\ mainPc = "idle"
    /\ file = NoFile
    /\ groqKey = <<" ", "k">>
    /\ dgKey = <<" ", "k">>
    /\ status = "Press SPACE to start recording."
    /\ widgets = [b \in {"groq", "deepgram"} |-> NewWidget]
    /\ nCycles = 0
    /\ curGroq = 0
    /\ groqW = [c \in Cycles |-> NoWorker]
    /\ dgW = [c \in Cycles |-> NoWorker]
    /\ curDg = 0
    /\ queue = <<>>
    /\ delivered = [b \in {"groq", "deepgram"} |-> {}]
    /\ crashed = FALSE

NextUI ==
    \/ keyPressEvent
    \/ keyReleaseEvent
    \/ stop_recording_joined
    \/ handle_groq_result
    \/ start_deepgram_transcription
    \/ handle_deepgram_result
    \/ reset_transcriptions
    \/ mousePressEvent
    \/ record_audio_open
    \/ record_audio_loop
    \/ record_audio_wave_close
    \/ \E c \in Cycles : GroqWorker_run(c)
    \/ \E c \in Cycles : DeepgramWorker_run(c)

SpecUI == InitUI /\ [][NextUI]_vars

\* The two widgets on their own: a result slot is called with any text of up to
\* MaxTextLen symbols, made of blanks and of one non-blank symbol, and the user
\* clicks on words and on the Reset button.
Texts == UNION {[1..n -> {" ", "w"}] : n \in 0..MaxTextLen}

\* handle_groq_result or handle_deepgram_result, called with any text
handle_result ==
    /\ ~crashed /\ mainPc = "idle"
    /\ \E b \in {"groq", "deepgram"} : \E text \in Texts : \E speed \in Elapsed :
          /\ widgets' = [widgets EXCEPT ![b] = set_transcription(text, speed)]
          /\ status' = IF b = "groq"
                       THEN "Groq Cloud transcription complete. Starting Deepgram..."
                       ELSE "All transcriptions complete. Press SPACE to start a new recording."
    /\ UNCHANGED <<recording, stopEvent, frames, rec, mainPc, file, groqKey,
                   dgKey, nCycles, curGroq, groqW, dgW, curDg, queue, delivered,
                   crashed>>

NextWidgets ==
    \/ handle_result
    \/ mousePressEvent
    \/ reset_transcriptions

SpecWidgets == Init /\ [][NextWidgets]_vars

\* What the schedulers guarantee: a thread that can run does run, a wait on a
\* thread that has ended returns, and the event loop delivers a queued signal.
\* Of the user it is assumed only that a key held down is released in the end;
\* presses, clicks and the button may or may not happen.
Fairness ==
    /\ WF_vars(keyReleaseEvent)
    /\ WF_vars(record_audio_open)
    /\ WF_vars(record_audio_loop)
    /\ WF_vars(record_audio_wave_close)
    /\ WF_vars(stop_recording_joined)
    /\ WF_vars(handle_groq_result)
    /\ WF_vars(start_deepgram_transcription)
    /\ WF_vars(handle_deepgram_result)
    /\ \A c \in Cycles : WF_vars(GroqWorker_run(c)) /\ WF_vars(DeepgramWorker_run(c))

\* SpecUI in which every backend call eventually returns
FairSpecUI == SpecUI /\ Fairness

\* ----------------------------------------------------- orchestrator states
\* The orchestrator of the specification has no variable of its own in the
\* code; its state is read off the flags, threads and workers.
Results == {"groq_result", "deepgram_result"}

\* cycle c has dispatched its transcription and backend 2's outcome of that
\* cycle has not been delivered yet
InFlight(c) == groqW[c].pc # "none" /\ c \notin delivered["deepgram"]

Processing == ~recording /\ mainPc = "idle" /\ \E c \in Cycles : InFlight(c)

Idle == ~recording /\ mainPc = "idle" /\ \A c \in Cycles : ~InFlight(c)

\* a text field that holds no credential
Blank(k) == \A i \in 1..Len(k) : k[i] = " "

\* the step in which join() returns and start_transcription runs
Released == mainPc = "joining" /\ mainPc' = "idle"

\* a step that creates a GroqWorker
GroqDispatched == \E c \in Cycles : groqW[c].pc = "none" /\ groqW'[c].pc # "none"

\* ------------------------------------------------------------------ claims

\* C1: a holdStart received while the orchestrator is Processing causes no
\* transition and starts no capture session: the recording flag, the capture
\* thread and the audio buffer are left as they are.
C1_HoldStartIgnoredWhileProcessing ==
    [][(Processing /\ keyPressEvent) => UNCHANGED <<recording, rec, frames>>]_vars

C3_OneCallInFlight ==
    /\ Cardinality({c \in Cycles : Running(groqW[c])}
                   \cup {MaxCycles + c : c \in {d \in Cycles : Running(dgW[d])}}) <= 1
    /\ \A c \in Cycles : dgW[c].pc # "none" => groqW[c].pc = "finished"

\* C4: in every cycle backend 1's outcome has been handed to its widget
\* before backend 2's worker is created.
C4_GroqOutcomeForwardedFirst ==
    \A c \in Cycles : dgW[c].pc # "none" => c \in delivered["groq"]

\* C4 witness: backend 1 failed, its error text is shown, and backend 2's
\* worker of that cycle is running.
C4_Witness ==
    /\ dgW[1].pc = "running"
    /\ widgets["groq"].words = Split(ErrorText(ExcText))
    /\ widgets["groq"].speed = 0

C6_FailureGivesEmptyTextZeroLatency ==
    \A i \in 1..Len(queue) :
        (queue[i].sig \in Results /\ queue[i].failed)
            => queue[i].text = <<>> /\ queue[i].speed = 0

\* C6 as amended: when the call raises (network error, unreadable audio file,
\* a body that is not JSON or not of the expected shape) the result carries the
\* text "Error: ..." - so the accuracy model receives at least one word - and
\* latency exactly 0.  A failure that raises nothing (a non-success status, a
\* JSON object without the transcript) is delivered like a success, with the
\* parsed text and the measured latency.
C6_RaisedGivesErrorTextZeroLatency ==
    \A i \in 1..Len(queue) :
        queue[i].sig \in Results
            => IF queue[i].raised
               THEN /\ queue[i].failed
                    /\ queue[i].text = <<"Error:", " ", ExcText>>
                    /\ Len(Split(queue[i].text)) >= 1
                    /\ queue[i].speed = 0
               ELSE /\ queue[i].speed \in Elapsed
                    /\ queue[i].missing => queue[i].text = <<>>

\* C6 witness: both kinds of failure are pending delivery, one that raised
\* and one that did not.
C6_Witness ==
    \E i, j \in 1..Len(queue) :
        /\ queue[i].sig = "groq_result" /\ queue[i].raised
        /\ queue[j].sig = "deepgram_result" /\ queue[j].failed /\ ~queue[j].raised

\* C7: within a cycle backend 2 reads the audio file with the contents that
\* backend 1 read.
C7_SameBlob ==
    \A c \in Cycles : dgW[c].pc = "finished" => dgW[c].blob = groqW[c].blob

\* C8: a backend-2 body in which a segment of the path to the transcript is
\* missing yields the empty string and raises nothing.
C8_MissingPathGivesEmpty ==
    \A i \in 1..Len(queue) :
        (queue[i].sig = "deepgram_result" /\ queue[i].missing)
            => queue[i].text = <<>> /\ ~queue[i].raised

\* C9: when backend 1's call is dispatched the capture thread has ended, it
\* holds no audio resource, and audio.wav holds this cycle's frames.
C9_CaptureCompleteAtDispatch ==
    [][GroqDispatched
         => /\ Terminated(rec)
            /\ ~rec.pa /\ ~rec.stream
            /\ file = Encode(frames)]_vars

\* C10: a capture thread that has ended holds neither its stream nor its
\* PyAudio instance.
C10_DeviceReleasedOnExit ==
    Terminated(rec) => ~rec.pa /\ ~rec.stream

\* C11: whenever the capture thread has ended - by the stop event, by a failed
\* chunk read or by a failed device open - audio.wav exists and holds the
\* encoding of the frames this cycle captured (possibly none).
C11_PartialAudioEncodedOnFailure ==
    Terminated(rec) => (file.exists /\ file = Encode(frames))

\* a step in which start_recording runs: a capture thread is created
CaptureStarted == nCycles' = nCycles + 1

\* the capture thread exists and has not ended
Live(r) == r.pc \in {"start", "loop", "write"}

\* C12: at most one capture session is live.  A capture thread is created only
\* when none is live and the window is not recording, and it starts with an
\* empty buffer; a holdStart while recording creates no thread and leaves the
\* buffer as it is.
C12_OneCaptureSession ==
    [][/\ CaptureStarted
            => /\ ~Live(rec) /\ ~recording
               /\ rec'.pc = "start" /\ recording'
               /\ frames' = <<>>
       /\ (recording /\ keyPressEvent) => UNCHANGED <<rec, frames, nCycles>>]_vars

\* C12 witness: the first session captured a chunk and was saved; the second
\* session is live and its buffer is empty.
C12_Witness ==
    /\ nCycles = 2 /\ recording
    /\ rec.pc = "loop" /\ frames = <<>>
    /\ file = Encode(<<Chunk>>)

\* C13: once a release has ended the recording of cycle c, eventually both
\* outcomes of cycle c have been delivered and the orchestrator is Idle.
C13_OutcomesDeliveredThenIdle ==
    \A c \in Cycles :
        (mainPc = "joining" /\ nCycles = c)
            ~> (c \in delivered["groq"] /\ c \in delivered["deepgram"] /\ Idle)

\* the number of words of a widget that are marked inaccurate
Marked(w) == Cardinality({i \in 1..Len(w.selected) : w.selected[i]})

\* word i of widget b is flipped and nothing else of the widget's words and flags
Flipped(b, i) ==
    /\ widgets'[b].words = widgets[b].words
    /\ i \in 1..Len(widgets[b].selected)
    /\ widgets'[b].selected = [widgets[b].selected EXCEPT ![i] = ~@]

\* C14: for a widget with at least one word the score is that of the current
\* flags, (total - marked) / total * 100 shown to one decimal with the counts
\* beside it: 100.0 with no word marked, 0.0 with all marked; and marking one
\* more word, the others fixed, does not increase it.
C14_AccuracyScore ==
    /\ [](\A b \in {"groq", "deepgram"} :
            LET w == widgets[b]
                total == Len(w.words)
                a == w.accuracy
            IN  total > 0
                  => /\ a.kind = "pct"
                     /\ a.total = total /\ a.correct = total - Marked(w)
                     /\ 2 * (a.pct10 * total - 1000 * (total - Marked(w))) <= total
                     /\ 2 * (1000 * (total - Marked(w)) - a.pct10 * total) <= total
                     /\ Marked(w) = 0 => a.pct10 = 1000
                     /\ Marked(w) = total => a.pct10 = 0)
    /\ [][\A b \in {"groq", "deepgram"} : \A i \in 1..Len(widgets[b].words) :
            (Flipped(b, i) /\ ~widgets[b].selected[i])
                => widgets'[b].accuracy.pct10 <= widgets[b].accuracy.pct10]_vars

\* C14 witness: one of three words is marked and the score shown is 66.7.
C14_Witness ==
    /\ Len(widgets["groq"].words) = 3
    /\ widgets["groq"].selected = <<FALSE, TRUE, FALSE>>
    /\ widgets["groq"].accuracy.pct10 = 667

\* C15: a click on word i changes that word's flag, and a second click on the
\* same word gives back the widget as it was before the first one: the flag of
\* word i, the other flags and the score.  Stated for every click the user
\* makes and for every word of every widget state that is reached.
C15_ToggleTwiceRestores ==
    /\ [][\A b \in {"groq", "deepgram"} : \A i \in 1..Len(widgets[b].words) :
            (widgets'[b].words = widgets[b].words
               /\ widgets'[b].selected[i] # widgets[b].selected[i])
                => /\ Clicked(widgets'[b], i).selected[i] = widgets[b].selected[i]
                   /\ (Flipped(b, i) =>
                         Clicked(widgets'[b], i).accuracy = widgets[b].accuracy)]_vars
    /\ [](\A b \in {"groq", "deepgram"} : \A i \in 1..Len(widgets[b].words) :
            LET once == Clicked(widgets[b], i)
                twice == Clicked(once, i)
            IN  /\ once.selected[i] = ~widgets[b].selected[i]
                /\ twice.selected[i] = widgets[b].selected[i]
                /\ twice.accuracy = widgets[b].accuracy
                /\ twice = widgets[b])

\* C15 witness: in a text of three words the second and third are marked
\* (score 33.3), so clicks have acted and a double click starts from a
\* marking that is neither empty nor full.
C15_Witness ==
    /\ Len(widgets["deepgram"].words) = 3
    /\ widgets["deepgram"].selected = <<FALSE, TRUE, TRUE>>
    /\ widgets["deepgram"].accuracy.pct10 = 333

\* The whitespace-separated tokens of a text, said without scanning it: the
\* k-th token runs from the k-th position where a non-blank follows a blank
\* (or starts the text) to the k-th position where a non-blank precedes a
\* blank (or ends the text).
Starts(text) ==
    {i \in 1..Len(text) : text[i] # " " /\ (i = 1 \/ text[i - 1] = " ")}

Ends(text) ==
    {i \in 1..Len(text) : text[i] # " " /\ (i = Len(text) \/ text[i + 1] = " ")}

Nth(S, k) == CHOOSE x \in S : Cardinality({y \in S : y <= x}) = k

Tokens(text) ==
    [k \in 1..Cardinality(Starts(text)) |->
        SubSeq(text, Nth(Starts(text), k), Nth(Ends(text), k))]

\* a widget as set_transcription leaves it: no word marked, the score N/A
\* without words and 100.0 otherwise
Fresh(w) ==
    /\ Len(w.selected) = Len(w.words)
    /\ \A i \in 1..Len(w.selected) : ~w.selected[i]
    /\ w.accuracy = IF Len(w.words) = 0
                    THEN [kind |-> "N/A", pct10 |-> 0, correct |-> 0, total |-> 0]
                    ELSE [kind |-> "pct", pct10 |-> 1000, correct |-> Len(w.words),
                          total |-> Len(w.words)]

\* C16: set_transcription(text) gives the whitespace-separated tokens of text,
\* all unmarked; for an empty (or blank) text it gives no word, total 0 and the
\* score N/A.  Every step that changes a widget otherwise than by flipping one
\* word leaves it in such a state whatever its words and marks were, and Reset
\* leaves both widgets without words and with the score N/A.
C16_SetTranscriptionReplaces ==
    /\ [](\A text \in Texts :
            LET w == set_transcription(text, 0)
            IN  /\ w.words = Tokens(text)
                /\ Fresh(w)
                /\ (\A i \in 1..Len(text) : text[i] = " ")
                      => (w.words = <<>> /\ w.accuracy.kind = "N/A"
                            /\ w.accuracy.total = 0))
    /\ [][\A b \in {"groq", "deepgram"} :
            (widgets'[b] # widgets[b] /\ ~\E i \in 1..Len(widgets[b].words) : Flipped(b, i))
                => /\ Fresh(widgets'[b])
                   /\ \A k \in 1..Len(widgets'[b].words) :
                         /\ widgets'[b].words[k] # <<>>
                         /\ \A j \in 1..Len(widgets'[b].words[k]) :
                               widgets'[b].words[k][j] # " "]_vars
    /\ [][reset_transcriptions
            => \A b \in {"groq", "deepgram"} :
                  widgets'[b].words = <<>> /\ widgets'[b].accuracy.kind = "N/A"]_vars

\* C16 witness: one widget was handed a text of two tokens, the other a blank
\* or empty text by a result slot (Reset would show the latency 0).
C16_Witness ==
    /\ widgets["groq"].words = <<<<"w", "w">>, <<"w">>>>
    /\ widgets["groq"].selected = <<FALSE, FALSE>>
    /\ widgets["deepgram"].words = <<>>
    /\ widgets["deepgram"].accuracy.kind = "N/A"
    /\ widgets["deepgram"].speed = 3

\* C17: a click on a word flips that word's flag and no other: the words and
\* the other flags of its widget are unchanged, its score is that of the new
\* flags, and the other widget (words, flags, latency, score) and everything
\* outside the widgets are unchanged.
C17_ToggleFlipsOneWord ==
    [][mousePressEvent
         => \E b \in {"groq", "deepgram"} : \E i \in 1..Len(widgets[b].words) :
               /\ Flipped(b, i)
               /\ \A j \in 1..Len(widgets[b].words) :
                     j # i => widgets'[b].selected[j] = widgets[b].selected[j]
               /\ widgets'[b].speed = widgets[b].speed
               /\ widgets'[b].accuracy.correct = Len(widgets[b].words) - Marked(widgets'[b])
               /\ \A c \in {"groq", "deepgram"} \ {b} : widgets'[c] = widgets[c]
               /\ UNCHANGED <<status, queue, recording, file>>]_vars

\* C17 witness: both widgets show words and marks are set in one of them only.
C17_Witness ==
    /\ Len(widgets["groq"].words) = 2 /\ Len(widgets["deepgram"].words) = 2
    /\ widgets["groq"].selected = <<TRUE, TRUE>>
    /\ widgets["deepgram"].selected = <<FALSE, FALSE>>
    /\ widgets["deepgram"].accuracy.pct10 = 1000

\* C18: a release of SPACE while the window is not recording changes nothing:
\* not the flags, the capture thread or the buffer, not the file, not the
\* widgets or the status line, and no worker is created.
C18_ReleaseWhenNotRecordingIsNoOp ==
    [][(~recording /\ keyReleaseEvent) => UNCHANGED vars]_vars

\* C18 witness: the window is not recording and handles events while backend 2
\* of the first cycle is running, so a release here meets a cycle in progress
\* and must leave it alone.
C18_Witness ==
    /\ ~recording /\ mainPc = "idle" /\ ~crashed
    /\ dgW[1].pc = "running" /\ nCycles = 1
    /\ stopEvent

\* C19: every worker that was created was given a non-empty key.
C19_NoEmptyCredentialDispatched ==
    \A c \in Cycles :
        /\ groqW[c].pc # "none" => groqW[c].key # <<>>
        /\ dgW[c].pc # "none" => dgW[c].key # <<>>

\* the number of outcomes of cycle c's worker that were sent by signal sig:
\* those still pending in the queue and the one its widget was handed
Outcomes(sig, b, c) ==
    Cardinality({i \in 1..Len(queue) : queue[i].sig = sig /\ queue[i].id = c})
        + (IF c \in delivered[b] THEN 1 ELSE 0)

\* C20: every worker whose run() has ended has sent exactly one outcome, and a
\* worker that has not ended has sent none, so each cycle forwards exactly one
\* backend-1 outcome and exactly one backend-2 outcome.
C20_ExactlyOneOutcome ==
    \A c \in Cycles :
        /\ Outcomes("groq_result", "groq", c)
              = (IF groqW[c].pc \in {"none", "running"} THEN 0 ELSE 1)
        /\ Outcomes("deepgram_result", "deepgram", c)
              = (IF dgW[c].pc \in {"none", "running"} THEN 0 ELSE 1)

====
